---- MODULE Spec2Model ----
(***************************************************************************)
(* A model of the sensor training pipeline: the orchestrator               *)
(* (sensor/pipeline/training.py), its four stage components                *)
(* (sensor/components/*.py) and the helpers they call (AIUtiils/*.py,      *)
(* utils/exceptions.py, utils/db_connectors.py).                           *)
(*                                                                         *)
(* Python values are records with a "kind" field.  A DataFrame is its set  *)
(* of column names plus the bag of its rows' target labels; directories    *)
(* are not modelled (a file's parent directory exists once it is made).    *)
(* The numeric libraries (K-S test, scaler, resampler, classifier) are     *)
(* outside the repository: their results are nondeterministic inputs.      *)
(***************************************************************************)
EXTENDS Integers, Sequences, FiniteSets, TLC

\* ------------------------------------------------------------------ bounds
MaxRows == 2      \* rows of a source dataset
MaxFaults == 1    \* I/O operations that fail during one run

\* ------------------------------------------------------------------- clock
VARIABLE now                       \* the wall clock, in half seconds

\* --------------------------------------------------------------- constants
TARGET_COLUMN == "class"
ARTIFACT_DIR == "artifact"
FILE_NAME == "sensor.csv"
TRAIN_FILE_NAME == "train.csv"
TEST_FILE_NAME == "test.csv"
PREPROCESS_OBJECT_FILE_NAME == "preprocess.pkl"
MODEL_FILE_NAME == "model.pkl"
OFFLINE_FILE_PATH == <<"data", FILE_NAME>>
DATA_INGESTION_DIR_NAME == "data_ingestion"
DATA_INGESTION_FEATURE_STORE_DIR == "feature_store"
DATA_INGESTION_INGESTED_DIR == "ingested"
\* 0.2, in percent
DATA_INGESTION_TRAIN_TEST_SPLIT_RATIO == 20
DATA_VALIDATION_DIR_NAME == "data_validation"
DATA_VALIDATION_VALIDATED_DIR == "validated"
DATA_VALIDATION_INVALID_DIR == "invalid"
DATA_VALIDATION_DRIFT_REPORT_DIR == "drift_report"
DATA_VALIDATION_DRIFT_REPORT_FILE == "report.yaml"
DATA_TRANSFORMATION_DIR_NAME == "data_transformation"
DATA_TRANSFORMATION_TRANSFORMED_DIR == "transformed"
DATA_TRANSFORMATION_OBJECT_DIR == "transformed_object"
MODEL_TRAINER_DIR_NAME == "model_trainer"
MODEL_TRAINER_TRAINED_MODEL_DIR == "trained_model"
\* 0.6 and 0.05, in hundredths (an f1 score is a number of hundredths, 0..100)
MODEL_TRAINER_EXPECTTED_SCORE == 60
MODEL_TRAINER_OVER_FITTING_UNDER_FITTING_SCORE == 5
\* 0.05, in hundredths
DATA_DRIFT_THRESHOLD == 5

\* ------------------------------------------------------------------ values
None == [kind |-> "None"]

\* An exception object; tb says whether it was raised (and so carries a traceback).
Exc(type, raised) == [kind |-> "Exception", type |-> type, tb |-> raised]

Labels == {"pos", "neg", "na"}

Size(rows) == rows["pos"] + rows["neg"] + rows["na"]

RowBags == {b \in [Labels -> 0..MaxRows] : Size(b) <= MaxRows}

NoRows == [l \in Labels |-> 0]

DataFrame(origin, columns, rows) ==
    [kind |-> "DataFrame", origin |-> origin, columns |-> columns, rows |-> rows]

\* pd.DataFrame(list(raw_data)): the columns are the keys of the records.
DataFrameOfRecords(rows) ==
    DataFrame("remote", IF Size(rows) = 0 THEN {} ELSE {"sensor", TARGET_COLUMN}, rows)

\* DataFrame.to_csv: a header line and one line per row.
ToCsv(df) == [kind |-> "csv", origin |-> df.origin, header |-> df.columns, lines |-> df.rows]

\* pd.read_csv: a file without a header line has no columns to parse (EmptyDataError).
CsvParses(content) == content.kind = "csv" /\ content.header # {}

ReadCsv(content) == DataFrame(content.origin, content.header, content.lines)

\* ------------------------------------------------------------- file system
WriteFile(f, path, content) ==
    [p \in (DOMAIN f) \cup {path} |-> IF p = path THEN content ELSE f[p]]

Exists(f, path) == path \in DOMAIN f

\* ---------------------------------------------------------- result records
Ok(v, f, ev) == [out |-> "ok", val |-> v, fs |-> f, ev |-> ev]

Raised(e, f, ev) == [out |-> "exc", val |-> e, fs |-> f, ev |-> ev]

Log(msg) == [op |-> "log", msg |-> msg]

WriteEv(path, ok) == [op |-> "write", path |-> path, ok |-> ok]

ReadEv(path, ok) == [op |-> "read", path |-> path, ok |-> ok]

\* ------------------------------------------------- AdvancedExceptionHandler
\* handle_exception reads the last frame of exc.__traceback__; an exception
\* that was constructed but never raised has no frame, and the subscript fails.
handle_exception_LogsOnly(exc) == "return"

handle_exception(exc) == IF exc.tb THEN "return" ELSE "IndexError"

\* `except Exception as exc: ...; handle_exception(exc)` as the last statement
\* of a function: the function returns None unless the handler itself raises.
Except(type, f, ev) ==
    LET h == handle_exception(Exc(type, TRUE))
    IN  IF h = "return" THEN Ok(None, f, ev) ELSE Raised(Exc(h, TRUE), f, ev)

\* ----------------------------------------------------------------- configs
\* datetime.now().strftime("%m_%d_%Y_%H_%M_%S"): the clock cut to whole seconds.
strftime(t) ==
    LET s == t \div 2
    IN  "11_01_2026_05_02_" \o (IF s < 10 THEN "0" \o ToString(s) ELSE ToString(s))

\* A constructor argument that is not passed, and one that is.
Default == [kind |-> "default"]

Arg(v) == [kind |-> "arg", v |-> v]

\* The dataclass's two path fields have class-level defaults, evaluated once
\* when the module is imported: class_timestamp is that evaluation of
\* datetime.now().strftime(...).  The generated __init__ takes each field as
\* an optional argument and derives nothing from another field.
TrainingPipelineConfigEntity(class_timestamp, timestamp) ==
    [timestamp |-> IF timestamp.kind = "default" THEN class_timestamp ELSE timestamp.v,
     artifact_dir |-> <<ARTIFACT_DIR, class_timestamp>>]

DataIngestionConfigEntity_Clocked(tpc) ==
    LET base_dir == <<ARTIFACT_DIR, strftime(now), DATA_INGESTION_DIR_NAME>>
        ingested_dir == base_dir \o <<DATA_INGESTION_INGESTED_DIR>>
    IN  [data_ingestion_dir |-> base_dir,
         feature_store_dir |-> base_dir \o <<DATA_INGESTION_FEATURE_STORE_DIR, FILE_NAME>>,
         training_file_path |-> ingested_dir \o <<TRAIN_FILE_NAME>>,
         testing_file_path |-> ingested_dir \o <<TEST_FILE_NAME>>,
         train_test_split_ratio |-> DATA_INGESTION_TRAIN_TEST_SPLIT_RATIO,
         offline_file_path |-> OFFLINE_FILE_PATH]

DataIngestionConfigEntity(tpc) ==
    LET base_dir == tpc.artifact_dir \o <<DATA_INGESTION_DIR_NAME>>
        ingested_dir == base_dir \o <<DATA_INGESTION_INGESTED_DIR>>
    IN  [data_ingestion_dir |-> base_dir,
         feature_store_dir |-> base_dir \o <<DATA_INGESTION_FEATURE_STORE_DIR, FILE_NAME>>,
         training_file_path |-> ingested_dir \o <<TRAIN_FILE_NAME>>,
         testing_file_path |-> ingested_dir \o <<TEST_FILE_NAME>>,
         train_test_split_ratio |-> DATA_INGESTION_TRAIN_TEST_SPLIT_RATIO,
         offline_file_path |-> OFFLINE_FILE_PATH]

\* ----------------------------------------------------------- DataIngestion
\* MongoDBClient(uri).get_collection().find(): get_collection requires a
\* collection_name, so the call on the repository's client raises TypeError
\* whatever the collection holds; a patched client (the unit test's) answers
\* from the remote.
_export_collection_to_dataframe(patched, remote, f, ev) ==
    IF ~patched THEN Raised(Exc("TypeError", TRUE), f, ev)
    ELSE IF remote.kind = "unreachable" THEN Raised(Exc("ConnectionError", TRUE), f, ev)
    ELSE Ok(DataFrameOfRecords(remote.records), f, ev)

_read_fallback_csv(cfg, f, ev) ==
    LET path == cfg.offline_file_path
    IN  IF ~Exists(f, path)
        THEN Except("FileNotFoundError", f, ev \o <<ReadEv(path, FALSE)>>)
        ELSE IF ~CsvParses(f[path])
        THEN Except("EmptyDataError", f, ev \o <<ReadEv(path, FALSE)>>)
        ELSE Ok(ReadCsv(f[path]), f, ev \o <<ReadEv(path, TRUE)>>)

export_data_to_feature_store_NoFallback(cfg, patched, remote, f, ev) ==
    _export_collection_to_dataframe(patched, remote, f, ev)

export_data_to_feature_store(cfg, patched, remote, f, ev) ==
    LET r == _export_collection_to_dataframe(patched, remote, f, ev)
    IN  IF r.out = "ok" THEN r ELSE _read_fallback_csv(cfg, r.fs, r.ev)

\* DataFrame.to_csv(path): AttributeError on None, OSError when the write fails.
to_csv(df, path, F, f, ev) ==
    IF df.kind # "DataFrame" THEN Raised(Exc("AttributeError", TRUE), f, ev)
    ELSE IF path \in F THEN Raised(Exc("OSError", TRUE), f, ev \o <<WriteEv(path, FALSE)>>)
    ELSE Ok(None, WriteFile(f, path, ToCsv(df)), ev \o <<WriteEv(path, TRUE)>>)

_save_data_to_feature_store(cfg, data, F, f, ev) ==
    LET r == to_csv(data, cfg.feature_store_dir, F, f, ev)
    IN  IF r.out = "ok" THEN r ELSE Except(r.val.type, r.fs, r.ev)

\* sklearn's train_test_split: n_test = ceil(n * test_size), n_train = floor(n * (1 - test_size)).
NTest(n, ratio) == (n * ratio + 99) \div 100

NTrain(n, ratio) == (n * (100 - ratio)) \div 100

NoSplit == [kind |-> "NoSplit"]

\* perform_train_test_split: the shuffled partitions the call may return;
\* it raises on None, on no rows and when the train set would be empty.
SplitOutcomes(data, ratio) ==
    IF data.kind # "DataFrame" THEN {NoSplit}
    ELSE IF Size(data.rows) = 0 \/ NTrain(Size(data.rows), ratio) = 0 THEN {NoSplit}
    ELSE {[kind |-> "Split",
           train |-> DataFrame(data.origin, data.columns, [l \in Labels |-> data.rows[l] - t[l]]),
           test |-> DataFrame(data.origin, data.columns, t)] :
            t \in {b \in [Labels -> 0..Size(data.rows)] :
                     /\ Size(b) = NTest(Size(data.rows), ratio)
                     /\ \A l \in Labels : b[l] <= data.rows[l]}}

split_data_into_train_test(cfg, sp, F, f, ev) ==
    IF sp.kind # "Split" THEN Except("ValueError", f, ev)
    ELSE LET r1 == to_csv(sp.train, cfg.training_file_path, F, f, ev)
         IN  IF r1.out # "ok" THEN Except(r1.val.type, r1.fs, r1.ev)
             ELSE LET r2 == to_csv(sp.test, cfg.testing_file_path, F, r1.fs, r1.ev)
                  IN  IF r2.out # "ok" THEN Except(r2.val.type, r2.fs, r2.ev) ELSE r2

DataIngestionArtifactEntity(trained_file_path, test_file_path) ==
    [kind |-> "DataIngestionArtifactEntity",
     trained_file_path |-> trained_file_path, test_file_path |-> test_file_path]

\* The statements of initiate_data_ingestion after `data = export_data_to_feature_store()`;
\* sp is the split that perform_train_test_split returns for data.
ingest_exported(cfg, data, sp, F, f, ev) ==
    LET r2 == _save_data_to_feature_store(cfg, data, F, f, ev)
    IN  IF r2.out # "ok" THEN Except(r2.val.type, r2.fs, r2.ev)
        ELSE LET r3 == split_data_into_train_test(cfg, sp, F, r2.fs, r2.ev)
             IN  IF r3.out # "ok" THEN Except(r3.val.type, r3.fs, r3.ev)
                 ELSE Ok(DataIngestionArtifactEntity(cfg.training_file_path,
                                                     cfg.testing_file_path),
                         r3.fs, r3.ev)

initiate_data_ingestion(cfg, patched, remote, sp, F, f, ev) ==
    LET ev0 == ev \o <<Log("Starting data ingestion process.")>>
        r1 == export_data_to_feature_store(cfg, patched, remote, f, ev0)
    IN  IF r1.out # "ok" THEN Except(r1.val.type, r1.fs, r1.ev)
        ELSE ingest_exported(cfg, r1.val, sp, F, r1.fs, r1.ev)

\* ---------------------------------------------------------- DataValidation
DataValidationConfigEntity(tpc) ==
    LET base_dir == tpc.artifact_dir \o <<DATA_VALIDATION_DIR_NAME>>
        validated_dir == base_dir \o <<DATA_VALIDATION_VALIDATED_DIR>>
        invalid_dir == base_dir \o <<DATA_VALIDATION_INVALID_DIR>>
        drift_report_dir == base_dir \o <<DATA_VALIDATION_DRIFT_REPORT_DIR>>
    IN  [data_validation_dir |-> base_dir,
         validated_dir |-> validated_dir,
         invalid_dir |-> invalid_dir,
         drift_report_dir |-> drift_report_dir,
         drift_report_file |-> drift_report_dir \o <<DATA_VALIDATION_DRIFT_REPORT_FILE>>,
         valid_train_dir |-> validated_dir \o <<TRAIN_FILE_NAME>>,
         valid_test_dir |-> validated_dir \o <<TEST_FILE_NAME>>,
         invalid_train_dir |-> invalid_dir \o <<TRAIN_FILE_NAME>>,
         invalid_test_dir |-> invalid_dir \o <<TEST_FILE_NAME>>]

\* read_pd_data_to_csv: a failed read is handled inside, and None is returned.
read_pd_data_to_csv(path, f, ev) ==
    IF ~Exists(f, path) THEN Except("FileNotFoundError", f, ev \o <<ReadEv(path, FALSE)>>)
    ELSE IF ~CsvParses(f[path]) THEN Except("EmptyDataError", f, ev \o <<ReadEv(path, FALSE)>>)
    ELSE Ok(ReadCsv(f[path]), f, ev \o <<ReadEv(path, TRUE)>>)

\* write_pd_data_to_csv: a failed write is handled inside.
write_pd_data_to_csv(data, path, F, f, ev) ==
    LET r == to_csv(data, path, F, f, ev)
    IN  IF r.out = "ok" THEN r ELSE Except(r.val.type, r.fs, r.ev)

\* write_yaml_file: a failed write is handled inside.
write_yaml_file(path, content, F, f, ev) ==
    IF path \in F THEN Except("OSError", f, ev \o <<WriteEv(path, FALSE)>>)
    ELSE Ok(None, WriteFile(f, path, [kind |-> "yaml", content |-> content]),
            ev \o <<WriteEv(path, TRUE)>>)

AllColumns == {"sensor", TARGET_COLUMN}

\* The p-values the two-sample K-S test may return, in hundredths.
PValues == {DATA_DRIFT_THRESHOLD - 1, DATA_DRIFT_THRESHOLD}

\* What ks_2samp does over the columns: it raises, or gives each column a p-value.
DriftOutcomes ==
    {[kind |-> "raise"]} \cup {[kind |-> "pvalues", p |-> q] : q \in [AllColumns -> PValues]}

DriftEntry_Inclusive(pvalue, threshold) ==
    [pvalue |-> pvalue, is_drifted |-> pvalue <= threshold]

\* One entry of the drift report.
DriftEntry(pvalue, threshold) ==
    [pvalue |-> pvalue, is_drifted |-> ~(threshold <= pvalue)]

detect_data_drift_Tolerant(base_df, current_df, drift, f, ev) ==
    Ok([kind |-> "tuple", status |-> TRUE, report |-> <<>>], f, ev)

\* detect_data_drift: (status, drift_report), or None when anything inside raises.
detect_data_drift(base_df, current_df, drift, f, ev) ==
    IF base_df.kind # "DataFrame" THEN Except("AttributeError", f, ev)
    ELSE IF current_df.kind # "DataFrame" THEN Except("TypeError", f, ev)
    ELSE IF drift.kind = "raise" THEN Except("ValueError", f, ev)
    ELSE LET report == [c \in base_df.columns |-> DriftEntry(drift.p[c], DATA_DRIFT_THRESHOLD)]
         IN  Ok([kind |-> "tuple",
                 status |-> \A c \in base_df.columns : ~report[c].is_drifted,
                 report |-> report], f, ev)

routing_status_Computed(status) == status

\* `status = True` before the routing branch.
routing_status(status) == TRUE

DataValidationArtifactEntity(status, vt, vs, it, is, dr) ==
    [kind |-> "DataValidationArtifactEntity", validation_status |-> status,
     valid_train_file_path |-> vt, valid_test_file_path |-> vs,
     invalid_train_file_path |-> it, invalid_test_file_path |-> is,
     drift_report_file_path |-> dr]

DriftEv(status) == [op |-> "drift", status |-> status]

\* The routing branch of initiate_data_validation and the artifact it returns.
route_partitions(cfg, train_df, test_df, status, report_path, F, f, ev) ==
    LET good == routing_status(status)
        p1 == IF good THEN cfg.valid_train_dir ELSE cfg.invalid_train_dir
        p2 == IF good THEN cfg.valid_test_dir ELSE cfg.invalid_test_dir
        w1 == write_pd_data_to_csv(train_df, p1, F, f, ev)
        w2 == write_pd_data_to_csv(test_df, p2, F, w1.fs, w1.ev)
    IN  IF w1.out # "ok" THEN w1
        ELSE IF w2.out # "ok" THEN w2
        ELSE Ok(DataValidationArtifactEntity(good, cfg.valid_train_dir, cfg.valid_test_dir,
                    cfg.invalid_train_dir, cfg.invalid_test_dir, report_path),
                w2.fs, w2.ev)

\* What read_yaml_to_dict(SCHEMA_FILE_PATH) gave the constructor: the number of
\* columns and the numeric columns the partitions are to have.
Schema(columns, numerical_columns) ==
    [kind |-> "dict", columns |-> columns, numerical_columns |-> numerical_columns]

\* A schema the partitions meet, one of another column count, one that
\* requires a numeric column they lack.
Schemas == {Schema(Cardinality(AllColumns), {"sensor"}),
            Schema(Cardinality(AllColumns) + 1, {"sensor"}),
            Schema(Cardinality(AllColumns), {"sensor", "absent"})}

\* validate_number_of_columns: whether data.shape[1] is the expected number;
\* without a DataFrame the AttributeError is handled inside and None returned.
validate_number_of_columns(data, expected_columns) ==
    IF data.kind # "DataFrame" THEN None
    ELSE [kind |-> "bool", v |-> Cardinality(data.columns) = expected_columns]

\* is_numeric_column_exist: whether one of the columns is float64; a column
\* that is not there (KeyError) is handled inside and None returned.
is_numeric_column_exist(data, columns) ==
    IF data.kind # "DataFrame" THEN None
    ELSE IF ~(columns \subseteq data.columns) THEN None
    ELSE [kind |-> "bool", v |-> "sensor" \in columns]

\* What the four structural checks returned.
StructureEv(checks) == [op |-> "structure", checks |-> checks]

_validate_data_Strict(schema, train_df, test_df, f, ev) ==
    LET checks == <<validate_number_of_columns(train_df, schema.columns),
                    validate_number_of_columns(test_df, schema.columns),
                    is_numeric_column_exist(train_df, schema.numerical_columns),
                    is_numeric_column_exist(test_df, schema.numerical_columns)>>
        ev0 == ev \o <<Log("Validating data."), StructureEv(checks)>>
    IN  IF \A k \in 1..4 : checks[k] = [kind |-> "bool", v |-> TRUE]
        THEN Ok(None, f, ev0 \o <<Log("Data validated successfully.")>>)
        ELSE Raised(Exc("ValueError", TRUE), f, ev0)

\* _validate_data: the four checks are called and what they return is dropped.
_validate_data(schema, train_df, test_df, f, ev) ==
    LET checks == <<validate_number_of_columns(train_df, schema.columns),
                    validate_number_of_columns(test_df, schema.columns),
                    is_numeric_column_exist(train_df, schema.numerical_columns),
                    is_numeric_column_exist(test_df, schema.numerical_columns)>>
    IN  Ok(None, f, ev \o <<Log("Validating data."), StructureEv(checks),
                            Log("Data validated successfully.")>>)

\* The body of the try block of initiate_data_validation.
validation_body(cfg, dia, schema, drift, F, f, ev) ==
    LET ev0 == ev \o <<Log("Starting data validation process.")>>
        r1 == read_pd_data_to_csv(dia.trained_file_path, f, ev0)
        r2 == read_pd_data_to_csv(dia.test_file_path, r1.fs, r1.ev)
        v == _validate_data(schema, r1.val, r2.val, r2.fs, r2.ev)
        d == detect_data_drift(r1.val, r2.val, drift, v.fs, v.ev)
        drift_report_file_path == cfg.drift_report_dir \o <<"drift_report.yaml">>
        y == write_yaml_file(drift_report_file_path, d.val.report, F, d.fs,
                             d.ev \o <<DriftEv(d.val.status)>>)
    IN  IF r1.out # "ok" THEN r1
        ELSE IF r2.out # "ok" THEN r2
        ELSE IF v.out # "ok" THEN v
        ELSE IF d.out # "ok" THEN d
        ELSE IF d.val.kind # "tuple" THEN Raised(Exc("TypeError", TRUE), d.fs, d.ev)
        ELSE IF cfg.drift_report_dir \in F THEN Raised(Exc("TypeError", TRUE), d.fs, d.ev)
        ELSE IF y.out # "ok" THEN y
        ELSE IF cfg.validated_dir \in F THEN Raised(Exc("OSError", TRUE), y.fs, y.ev)
        ELSE route_partitions(cfg, r1.val, r2.val, d.val.status, drift_report_file_path,
                              F, y.fs, y.ev)

initiate_data_validation(cfg, dia, schema, drift, F, f, ev) ==
    LET r == validation_body(cfg, dia, schema, drift, F, f, ev)
    IN  IF r.out = "ok" THEN r ELSE Except(r.val.type, r.fs, r.ev)

\* ------------------------------------------------------ DataTransformation
DataTransformationConfigEntity(tpc) ==
    LET base_dir == tpc.artifact_dir \o <<DATA_TRANSFORMATION_DIR_NAME>>
    IN  [transformed_dir |-> base_dir,
         transformed_train_file_path |->
             base_dir \o <<DATA_TRANSFORMATION_TRANSFORMED_DIR, "train.npy">>,
         transformed_test_file_path |->
             base_dir \o <<DATA_TRANSFORMATION_TRANSFORMED_DIR, "test.npy">>,
         transformed_object_file_path |->
             base_dir \o <<DATA_TRANSFORMATION_OBJECT_DIR, PREPROCESS_OBJECT_FILE_NAME>>]

\* replace('na', np.nan) then dropna(subset=[TARGET_COLUMN]).
dropna(df) == DataFrame(df.origin, df.columns, [df.rows EXCEPT !["na"] = 0])

empty_Never(df) == FALSE

\* DataFrame.empty
empty(df) == Size(df.rows) = 0 \/ df.columns = {}

\* Pipeline(imputer, scaler).fit(X): the fitted transform is a function of X.
fit_pipeline(X) == [kind |-> "Pipeline", fitted_on |-> X]

\* np.c_[resampled transformed features, resampled target]
ndarray(preprocessing_obj, df) == [kind |-> "ndarray", by |-> preprocessing_obj, of |-> df.rows]

preprocess_Refit(train_df, test_df) ==
    [preprocessing_obj |-> [kind |-> "Pipeline", fitted_on |-> test_df.rows],
     train_arr |-> [kind |-> "ndarray",
                    by |-> [kind |-> "Pipeline", fitted_on |-> train_df.rows],
                    of |-> train_df.rows],
     test_arr |-> [kind |-> "ndarray",
                   by |-> [kind |-> "Pipeline", fitted_on |-> test_df.rows],
                   of |-> test_df.rows]]

\* preprocessing_pipeline.fit(train features), then transform of the train and
\* of the test features with the fitted object, resampling, and np.c_.
preprocess(train_df, test_df) ==
    LET preprocessing_obj == fit_pipeline(train_df.rows)
    IN  [preprocessing_obj |-> preprocessing_obj,
         train_arr |-> ndarray(preprocessing_obj, train_df),
         test_arr |-> ndarray(preprocessing_obj, test_df)]

\* save_numpy_array_data_to_file / save_object_to_file: a failed write is handled inside.
save_to_file(obj, path, F, f, ev) ==
    IF path \in F THEN Except("OSError", f, ev \o <<WriteEv(path, FALSE)>>)
    ELSE Ok(None, WriteFile(f, path, obj), ev \o <<WriteEv(path, TRUE)>>)

DataTransformationArtifactEntity(tr, te, ob) ==
    [kind |-> "DataTransformationArtifactEntity", transformed_train_file_path |-> tr,
     transformed_test_file_path |-> te, transformed_object_file_path |-> ob]

\* The body of the try block of initiate_data_transformation; numeric says
\* whether the fit, the transforms and the two resamplings go through.
transformation_body(cfg, dva, numeric, F, f, ev) ==
    LET ev0 == ev \o <<Log("Starting data transformation process.")>>
        r1 == read_pd_data_to_csv(dva.valid_train_file_path, f, ev0)
        r2 == read_pd_data_to_csv(dva.valid_test_file_path, r1.fs, r1.ev)
        train_df == dropna(r1.val)
        test_df == dropna(r2.val)
        pre == preprocess(train_df, test_df)
        s1 == save_to_file(pre.train_arr, cfg.transformed_train_file_path, F, r2.fs, r2.ev)
        s2 == save_to_file(pre.test_arr, cfg.transformed_test_file_path, F, s1.fs, s1.ev)
        s3 == save_to_file(pre.preprocessing_obj, cfg.transformed_object_file_path,
                           F, s2.fs, s2.ev)
    IN  IF r1.out # "ok" THEN r1
        ELSE IF r2.out # "ok" THEN r2
        ELSE IF r1.val.kind # "DataFrame" \/ r2.val.kind # "DataFrame"
        THEN Raised(Exc("AttributeError", TRUE), r2.fs, r2.ev)
        ELSE IF empty(train_df) \/ empty(test_df)
        THEN Raised(Exc("ValueError", TRUE), r2.fs, r2.ev)
        ELSE IF ~numeric THEN Raised(Exc("ValueError", TRUE), r2.fs, r2.ev)
        ELSE IF s1.out # "ok" THEN s1
        ELSE IF s2.out # "ok" THEN s2
        ELSE IF s3.out # "ok" THEN s3
        ELSE Ok(DataTransformationArtifactEntity(cfg.transformed_train_file_path,
                    cfg.transformed_test_file_path, cfg.transformed_object_file_path),
                s3.fs, s3.ev)

initiate_data_transformation(cfg, dva, numeric, F, f, ev) ==
    LET r == transformation_body(cfg, dva, numeric, F, f, ev)
    IN  IF r.out = "ok" THEN r ELSE Except(r.val.type, r.fs, r.ev)

\* ------------------------------------------------------------ ModelTrainer
ModelTrainerConfigEntity(tpc) ==
    LET base_dir == tpc.artifact_dir \o <<MODEL_TRAINER_DIR_NAME>>
    IN  [model_trainer_dir |-> base_dir,
         trained_model_file_path |->
             base_dir \o <<MODEL_TRAINER_TRAINED_MODEL_DIR, MODEL_FILE_NAME>>,
         expected_score |-> MODEL_TRAINER_EXPECTTED_SCORE,
         over_fitting_under_fitting_score |-> MODEL_TRAINER_OVER_FITTING_UNDER_FITTING_SCORE]

\* load_numpy_array_data_from_file: a failed load is handled inside, and None is returned.
load_numpy_array_data_from_file(path, f, ev) ==
    IF ~Exists(f, path) THEN Except("FileNotFoundError", f, ev \o <<ReadEv(path, FALSE)>>)
    ELSE Ok(f[path], f, ev \o <<ReadEv(path, TRUE)>>)

\* load_object_from_file: for a missing file an Exception object is returned, not raised.
load_object_from_file(path, f, ev) ==
    IF ~Exists(f, path) THEN Ok(Exc("Exception", FALSE), f, ev \o <<ReadEv(path, FALSE)>>)
    ELSE Ok(f[path], f, ev \o <<ReadEv(path, TRUE)>>)

ClassificationMetricsArtifactEntity(f1) == [kind |-> "ClassificationMetrics", f1_score |-> f1]

ModelTrainerArtifactEntity_Swapped(path, train_metrics, test_metrics) ==
    [kind |-> "ModelTrainerArtifactEntity", trained_model_file_path |-> path,
     train_model_metrics |-> test_metrics, test_model_metrics |-> train_metrics]

ModelTrainerArtifactEntity(path, train_metrics, test_metrics) ==
    [kind |-> "ModelTrainerArtifactEntity", trained_model_file_path |-> path,
     train_model_metrics |-> train_metrics, test_model_metrics |-> test_metrics]

SensorModel(preprocessor, model) ==
    [kind |-> "SensorModel", preprocessor |-> preprocessor, model |-> model]

Abs(x) == IF x < 0 THEN -x ELSE x

GateEv(gate) == [op |-> "gate", gate |-> gate]

\* What the fitted classifier scores on the train and the test array.
ScoresEv(f1_train, f1_test) == [op |-> "scores", f1_train |-> f1_train, f1_test |-> f1_test]

\* `self.exception_handler.handle_exception(Exception("..."))` in a gate: the
\* exception object is constructed there and never raised.
gate_tripped(f, ev) ==
    LET h == handle_exception(Exc("Exception", FALSE))
    IN  IF h = "return" THEN Ok(None, f, ev) ELSE Raised(Exc(h, TRUE), f, ev)

score_gate_Strict(f1_train, expected_score) == f1_train > expected_score

divergence_gate_Inclusive(f1_train, f1_test, max_diff) == Abs(f1_train - f1_test) >= max_diff

\* The minimum-score gate's condition.
score_gate(f1_train, expected_score) == f1_train >= expected_score

\* The overfitting/underfitting gate's condition.
divergence_gate(f1_train, f1_test, max_diff) == Abs(f1_train - f1_test) > max_diff

\* The statements of initiate_model_training from loading the transform on.
persist_bundle(cfg, dta, model, train_metrics, test_metrics, F, f, ev) ==
    LET o == load_object_from_file(dta.transformed_object_file_path, f, ev)
        sv == save_to_file(SensorModel(o.val, model), cfg.trained_model_file_path,
                           F, o.fs, o.ev)
    IN  IF o.out # "ok" THEN o
        ELSE IF cfg.model_trainer_dir \in F THEN Raised(Exc("OSError", TRUE), o.fs, o.ev)
        ELSE IF sv.out # "ok" THEN sv
        ELSE Ok(ModelTrainerArtifactEntity(cfg.trained_model_file_path,
                    train_metrics, test_metrics), sv.fs, sv.ev)

\* The statements of initiate_model_training from the first metrics on;
\* f1_train and f1_test are what the classifier scores on the two arrays.
apply_gates(cfg, dta, model, f1_train, f1_test, F, f, ev) ==
    LET ev0 == ev \o <<ScoresEv(f1_train, f1_test)>>
        g1 == IF score_gate(f1_train, cfg.expected_score)
              THEN gate_tripped(f, ev0 \o <<GateEv("score")>>)
              ELSE Ok(None, f, ev0)
        g2 == IF divergence_gate(f1_train, f1_test, cfg.over_fitting_under_fitting_score)
              THEN gate_tripped(g1.fs, g1.ev \o <<GateEv("divergence")>>)
              ELSE Ok(None, g1.fs, g1.ev)
    IN  IF g1.out # "ok" THEN g1
        ELSE IF g2.out # "ok" THEN g2
        ELSE persist_bundle(cfg, dta, model, ClassificationMetricsArtifactEntity(f1_train),
                            ClassificationMetricsArtifactEntity(f1_test), F, g2.fs, g2.ev)

\* The body of the try block of initiate_model_training; fitted says whether
\* XGBClassifier.fit goes through.
training_body(cfg, dta, fitted, f1_train, f1_test, F, f, ev) ==
    LET ev0 == ev \o <<Log("Starting model training process.")>>
        a1 == load_numpy_array_data_from_file(dta.transformed_train_file_path, f, ev0)
        a2 == load_numpy_array_data_from_file(dta.transformed_test_file_path, a1.fs, a1.ev)
    IN  IF dta.kind = "None" THEN Raised(Exc("ValueError", TRUE), f, ev0)
        ELSE IF a1.out # "ok" THEN a1
        ELSE IF a2.out # "ok" THEN a2
        ELSE IF a1.val.kind # "ndarray" \/ a2.val.kind # "ndarray"
        THEN Raised(Exc("TypeError", TRUE), a2.fs, a2.ev)
        ELSE IF ~fitted THEN Raised(Exc("AttributeError", TRUE), a2.fs, a2.ev)
        ELSE apply_gates(cfg, dta, [kind |-> "XGBClassifier", fitted_on |-> a1.val],
                         f1_train, f1_test, F, a2.fs, a2.ev)

initiate_model_training(cfg, dta, fitted, f1_train, f1_test, F, f, ev) ==
    LET r == training_body(cfg, dta, fitted, f1_train, f1_test, F, f, ev)
    IN  IF r.out = "ok" THEN r ELSE Except(r.val.type, r.fs, r.ev)

\* -------------------------------------------------------- TrainingPipeline
VARIABLES
    imported,                      \* process -> the timestamp evaluated when it imported
                                   \* sensor.datamodels.config
    pc,                            \* the statement run_pipeline (or the operation under test) is at
    fs,                            \* the files on disk: path -> content
    trace,                         \* calls, returns, file accesses and log lines so far
    faults,                        \* I/O operations chosen to fail so far
    patched,                       \* MongoDBClient is replaced by a test double
    remote,                        \* the remote collection
    training_pipeline_config,
    data_ingestion_artifact,       \* locals of run_pipeline
    data_validation_artifact,
    data_transformation_artifact,
    model_trainer_artifact,
    result                         \* what the operation gave its caller

vars == <<now, imported, pc, fs, trace, faults, patched, remote, training_pipeline_config,
          data_ingestion_artifact, data_validation_artifact,
          data_transformation_artifact, model_trainer_artifact, result>>

Unset == [kind |-> "Unset"]

Running == [out |-> "running", val |-> Unset]

\* datetime.now().strftime("%m_%d_%Y_%H_%M_%S") when config.py is imported
Timestamps == {strftime(0)}

\* The process that runs hello.py
MainProcess == "main"

\* AdvancedMLLogger.__init__ makes DEFAULT_LOG_DIR; a component's constructor raises if that fails.
DEFAULT_LOG_DIR == <<"logs">>

Unreachable == [kind |-> "unreachable"]

RemoteOutcomes == {Unreachable} \cup {[kind |-> "records", records |-> b] : b \in RowBags}

Snapshot(rows) == ToCsv(DataFrame("fallback", AllColumns, rows))

InitialFileSystems ==
    {<<>>} \cup {[p \in {OFFLINE_FILE_PATH} |-> Snapshot(b)] : b \in RowBags}

Faults(points) == {F \in SUBSET points : Cardinality(F) + faults <= MaxFaults}

CallEv(fn, arg) == [op |-> "call", fn |-> fn, arg |-> arg]

RetEv(fn, r) == [op |-> "return", fn |-> fn, out |-> r.out, val |-> r.val]

Init ==
    /\ pc = "start_data_ingestion"
    /\ fs \in InitialFileSystems
    /\ trace = <<>>
    /\ faults = 0
    /\ patched = FALSE
    /\ remote = Unreachable
    /\ now = 0
    /\ imported \in [{MainProcess} -> Timestamps]
    /\ training_pipeline_config = TrainingPipelineConfigEntity(imported[MainProcess], Default)
    /\ data_ingestion_artifact = Unset
    /\ data_validation_artifact = Unset
    /\ data_transformation_artifact = Unset
    /\ model_trainer_artifact = Unset
    /\ result = Running

\* A start_* method: the component call inside try, then the except clause.
start_stage(r, ok_msg, err_msg) ==
    IF r.out = "ok"
    THEN Ok(r.val, r.fs, r.ev \o <<Log(ok_msg)>>)
    ELSE Except(r.val.type, r.fs, r.ev \o <<Log(err_msg)>>)

start_data_ingestion(cfg, sp, F, f, ev) ==
    LET ev0 == ev \o <<Log("Starting data ingestion.")>>
    IN  start_stage(IF DEFAULT_LOG_DIR \in F THEN Raised(Exc("OSError", TRUE), f, ev0)
                    ELSE initiate_data_ingestion(cfg, patched, remote, sp, F, f, ev0),
                    "Data ingestion completed successfully.",
                    "Error during data ingestion.")

start_data_validation(cfg, dia, schema, drift, F, f, ev) ==
    LET ev0 == ev \o <<Log("Starting data validation.")>>
    IN  start_stage(IF dia.kind = "None" THEN Raised(Exc("ValueError", TRUE), f, ev0)
                    ELSE initiate_data_validation(cfg, dia, schema, drift, F, f, ev0),
                    "Data validation completed successfully.",
                    "Error during data validation.")

start_data_transformation(cfg, dva, numeric, F, f, ev) ==
    LET ev0 == ev \o <<Log("Starting data transformation.")>>
    IN  start_stage(initiate_data_transformation(cfg, dva, numeric, F, f, ev0),
                    "Data transformation completed successfully.",
                    "Error during data transformation.")

start_model_training(cfg, dta, fitted, f1_train, f1_test, F, f, ev) ==
    LET ev0 == ev \o <<Log("Starting model training.")>>
    IN  start_stage(initiate_model_training(cfg, dta, fitted, f1_train, f1_test, F, f, ev0),
                    "Model training completed successfully.",
                    "Error during model training.")

\* The except clause of run_pipeline: what run_pipeline gives its caller.
run_pipeline_except(type) ==
    LET r == Except(type, fs, <<>>)
    IN  [out |-> r.out, val |-> r.val]

\* One statement of run_pipeline that calls a stage: the stage's result r is
\* bound to its local, or the except clause ends the run.
Step(fn, arg, r, next) ==
    /\ fs' = r.fs
    /\ trace' = trace \o <<CallEv(fn, arg)>> \o r.ev \o <<RetEv(fn, r)>>
    /\ IF r.out = "ok"
       THEN pc' = next /\ result' = result
       ELSE /\ pc' = "done"
            /\ result' = run_pipeline_except(r.val.type)

\* The f1 scores (hundredths) the fitted classifier may reach on the two arrays.
F1Train == {MODEL_TRAINER_EXPECTTED_SCORE - 1, MODEL_TRAINER_EXPECTTED_SCORE,
            MODEL_TRAINER_EXPECTTED_SCORE + 1}

F1Test == {MODEL_TRAINER_EXPECTTED_SCORE,
           MODEL_TRAINER_EXPECTTED_SCORE - 1 - MODEL_TRAINER_OVER_FITTING_UNDER_FITTING_SCORE,
           MODEL_TRAINER_EXPECTTED_SCORE - 2 - MODEL_TRAINER_OVER_FITTING_UNDER_FITTING_SCORE}

\* data_ingestion_artifact = self.start_data_ingestion()
StartDataIngestion ==
    /\ pc = "start_data_ingestion"
    /\ LET cfg == DataIngestionConfigEntity(training_pipeline_config)
           x == export_data_to_feature_store(cfg, patched, remote, fs, <<>>)
       IN  \E F \in Faults({DEFAULT_LOG_DIR, cfg.feature_store_dir,
                            cfg.training_file_path, cfg.testing_file_path}) :
           \E sp \in SplitOutcomes(IF x.out = "ok" THEN x.val ELSE None,
                                   cfg.train_test_split_ratio) :
             \E r \in {start_data_ingestion(cfg, sp, F, fs, <<>>)} :
                 /\ Step("start_data_ingestion", None, r, "start_data_validation")
                 /\ data_ingestion_artifact' = r.val
                 /\ faults' = faults + Cardinality(F)
    /\ UNCHANGED <<now, imported, patched, remote, training_pipeline_config, data_validation_artifact,
                   data_transformation_artifact, model_trainer_artifact>>

\* data_validation_artifact = self.start_data_validation(data_ingestion_artifact)
StartDataValidation ==
    /\ pc = "start_data_validation"
    /\ LET cfg == DataValidationConfigEntity(training_pipeline_config)
       IN  \E F \in Faults({cfg.drift_report_dir, cfg.drift_report_dir \o <<"drift_report.yaml">>,
                            cfg.validated_dir, cfg.valid_train_dir, cfg.valid_test_dir}) :
           \E schema \in Schemas, drift \in DriftOutcomes :
             \E r \in {start_data_validation(cfg, data_ingestion_artifact, schema, drift,
                                             F, fs, <<>>)} :
                 /\ Step("start_data_validation", data_ingestion_artifact, r, "validation_status")
                 /\ data_validation_artifact' = r.val
                 /\ faults' = faults + Cardinality(F)
    /\ UNCHANGED <<now, imported, patched, remote, training_pipeline_config, data_ingestion_artifact,
                   data_transformation_artifact, model_trainer_artifact>>

CheckValidationStatus_HaltsOnDrift ==
    /\ pc = "validation_status"
    /\ IF data_validation_artifact.kind = "None"
          \/ \E i \in DOMAIN trace : trace[i].op = "drift" /\ ~trace[i].status
       THEN /\ pc' = "done"
            /\ result' = [out |-> "ok", val |-> None]
            /\ trace' = trace \o <<Log("Error during the training pipeline.")>>
       ELSE /\ pc' = "start_data_transformation"
            /\ result' = result
            /\ trace' = trace \o <<Log("Data validation passed.")>>
    /\ UNCHANGED <<now, imported, fs, faults, patched, remote, training_pipeline_config,
                   data_ingestion_artifact, data_validation_artifact,
                   data_transformation_artifact, model_trainer_artifact>>

CheckValidationStatus_Retry ==
    /\ pc = "validation_status"
    /\ pc' = IF data_validation_artifact.kind = "None"
             THEN "start_data_validation" ELSE "start_data_transformation"
    /\ trace' = trace \o <<Log("Data validation passed.")>>
    /\ UNCHANGED <<now, imported, fs, faults, patched, remote, training_pipeline_config, result,
                   data_ingestion_artifact, data_validation_artifact,
                   data_transformation_artifact, model_trainer_artifact>>

\* if data_validation_artifact.validation_status: ... else: ...
CheckValidationStatus ==
    /\ pc = "validation_status"
    /\ IF data_validation_artifact.kind = "None"
       THEN /\ pc' = "done"
            /\ result' = run_pipeline_except("AttributeError")
            /\ trace' = trace \o <<Log("Error during the training pipeline.")>>
       ELSE /\ pc' = "start_data_transformation"
            /\ result' = result
            /\ trace' = trace \o <<Log(IF data_validation_artifact.validation_status
                                       THEN "Data validation passed."
                                       ELSE "Data validation failed. Check the invalid data files.")>>
    /\ UNCHANGED <<now, imported, fs, faults, patched, remote, training_pipeline_config,
                   data_ingestion_artifact, data_validation_artifact,
                   data_transformation_artifact, model_trainer_artifact>>

\* data_transformation_artifact = self.start_data_transformation(data_validation_artifact)
StartDataTransformation ==
    /\ pc = "start_data_transformation"
    /\ LET cfg == DataTransformationConfigEntity(training_pipeline_config)
       IN  \E F \in Faults({cfg.transformed_train_file_path, cfg.transformed_test_file_path,
                            cfg.transformed_object_file_path}) :
           \E numeric \in BOOLEAN :
             \E r \in {start_data_transformation(cfg, data_validation_artifact, numeric,
                                                 F, fs, <<>>)} :
                 /\ Step("start_data_transformation", data_validation_artifact, r,
                         "start_model_training")
                 /\ data_transformation_artifact' = r.val
                 /\ faults' = faults + Cardinality(F)
    /\ UNCHANGED <<now, imported, patched, remote, training_pipeline_config, data_ingestion_artifact,
                   data_validation_artifact, model_trainer_artifact>>

\* model_trainer_artifact = self.start_model_training(data_transformation_artifact)
StartModelTraining ==
    /\ pc = "start_model_training"
    /\ LET cfg == ModelTrainerConfigEntity(training_pipeline_config)
       IN  \E F \in Faults({cfg.model_trainer_dir, cfg.trained_model_file_path}) :
           \E fitted \in BOOLEAN, f1_train \in F1Train, f1_test \in F1Test :
             \E r \in {start_model_training(cfg, data_transformation_artifact, fitted,
                                            f1_train, f1_test, F, fs, <<>>)} :
                 /\ Step("start_model_training", data_transformation_artifact, r, "completed")
                 /\ model_trainer_artifact' = r.val
                 /\ faults' = faults + Cardinality(F)
    /\ UNCHANGED <<now, imported, patched, remote, training_pipeline_config, data_ingestion_artifact,
                   data_validation_artifact, data_transformation_artifact>>

\* self.logger.info("Training pipeline completed successfully."), and the end of run_pipeline
Complete ==
    /\ pc = "completed"
    /\ pc' = "done"
    /\ trace' = trace \o <<Log("Training pipeline completed successfully.")>>
    /\ result' = [out |-> "ok", val |-> None]
    /\ UNCHANGED <<now, imported, fs, faults, patched, remote, training_pipeline_config,
                   data_ingestion_artifact, data_validation_artifact,
                   data_transformation_artifact, model_trainer_artifact>>

Next ==
    \/ StartDataIngestion
    \/ StartDataValidation
    \/ CheckValidationStatus
    \/ StartDataTransformation
    \/ StartModelTraining
    \/ Complete

Spec == Init /\ [][Next]_vars

\* ------------------------------------------- export_data_to_feature_store
\* The acquisition called on its own (as the unit tests call it), for every
\* client, remote collection and snapshot file.
AcquireInit ==
    /\ pc = "export_data_to_feature_store"
    /\ fs \in InitialFileSystems
    /\ trace = <<>>
    /\ faults = 0
    /\ patched \in BOOLEAN
    /\ remote \in RemoteOutcomes
    /\ now = 0
    /\ imported \in [{MainProcess} -> Timestamps]
    /\ training_pipeline_config = TrainingPipelineConfigEntity(imported[MainProcess], Default)
    /\ data_ingestion_artifact = Unset
    /\ data_validation_artifact = Unset
    /\ data_transformation_artifact = Unset
    /\ model_trainer_artifact = Unset
    /\ result = Running

ExportDataToFeatureStore ==
    /\ pc = "export_data_to_feature_store"
    /\ LET r == export_data_to_feature_store(
                    DataIngestionConfigEntity(training_pipeline_config),
                    patched, remote, fs, <<>>)
       IN  /\ result' = [out |-> r.out, val |-> r.val]
           /\ trace' = r.ev
           /\ fs' = r.fs
    /\ pc' = "done"
    /\ UNCHANGED <<now, imported, faults, patched, remote, training_pipeline_config,
                   data_ingestion_artifact, data_validation_artifact,
                   data_transformation_artifact, model_trainer_artifact>>

AcquireNext == ExportDataToFeatureStore

SpecAcquire == AcquireInit /\ [][AcquireNext]_vars

\* ------------------------------------------------------------ run contexts
\* Processes import sensor.datamodels.config, construct pipelines and
\* configs while the clock runs.
MaxClock == 3     \* half seconds the clock runs
MaxBuilt == 2     \* pipelines and stage configs constructed

Procs == {MainProcess, "worker"}

StageNames == {"data_ingestion", "data_validation", "data_transformation", "model_trainer"}

\* XConfigEntity(training_pipeline_config=tpc) for the stage
StageConfig(stage, tpc) ==
    IF stage = "data_ingestion" THEN DataIngestionConfigEntity(tpc)
    ELSE IF stage = "data_validation" THEN DataValidationConfigEntity(tpc)
    ELSE IF stage = "data_transformation" THEN DataTransformationConfigEntity(tpc)
    ELSE ModelTrainerConfigEntity(tpc)

\* The directory name of a stage
StageDir(stage) ==
    IF stage = "data_ingestion" THEN DATA_INGESTION_DIR_NAME
    ELSE IF stage = "data_validation" THEN DATA_VALIDATION_DIR_NAME
    ELSE IF stage = "data_transformation" THEN DATA_TRANSFORMATION_DIR_NAME
    ELSE MODEL_TRAINER_DIR_NAME

\* The files the stage writes under its config: the paths the components pass
\* to their writers (the drift report's is joined in initiate_data_validation).
StagePaths(stage, cfg) ==
    IF stage = "data_ingestion"
    THEN {cfg.feature_store_dir, cfg.training_file_path, cfg.testing_file_path}
    ELSE IF stage = "data_validation"
    THEN {cfg.drift_report_dir \o <<"drift_report.yaml">>, cfg.valid_train_dir,
          cfg.valid_test_dir, cfg.invalid_train_dir, cfg.invalid_test_dir}
    ELSE IF stage = "data_transformation"
    THEN {cfg.transformed_train_file_path, cfg.transformed_test_file_path,
          cfg.transformed_object_file_path}
    ELSE {cfg.trained_model_file_path}

\* TrainingPipeline.__init__: a context built from the defaults, and the four stage configs from it.
TrainingPipeline(class_timestamp) ==
    LET tpc == TrainingPipelineConfigEntity(class_timestamp, Default)
    IN  [training_pipeline_config |-> tpc,
         config |-> [stage \in StageNames |-> StageConfig(stage, tpc)]]

ContextsInit ==
    /\ pc = "contexts"
    /\ now = 0
    /\ imported = <<>>
    /\ fs = <<>>
    /\ trace = <<>>
    /\ faults = 0
    /\ patched = FALSE
    /\ remote = Unreachable
    /\ training_pipeline_config = Unset
    /\ data_ingestion_artifact = Unset
    /\ data_validation_artifact = Unset
    /\ data_transformation_artifact = Unset
    /\ model_trainer_artifact = Unset
    /\ result = Running

\* Time passes.
Tick ==
    /\ now < MaxClock
    /\ now' = now + 1
    /\ UNCHANGED <<imported, pc, fs, trace, faults, patched, remote, training_pipeline_config,
                   data_ingestion_artifact, data_validation_artifact,
                   data_transformation_artifact, model_trainer_artifact, result>>

\* A process imports sensor.datamodels.config: the class body of
\* TrainingPipelineConfigEntity is executed, and its defaults evaluated.
ImportConfig ==
    /\ \E p \in Procs \ DOMAIN imported :
           imported' = [q \in (DOMAIN imported) \cup {p} |->
                           IF q = p THEN strftime(now) ELSE imported[q]]
    /\ UNCHANGED <<now, pc, fs, trace, faults, patched, remote, training_pipeline_config,
                   data_ingestion_artifact, data_validation_artifact,
                   data_transformation_artifact, model_trainer_artifact, result>>

\* TrainingPipeline() in a process: a new run.
NewTrainingPipeline ==
    /\ Len(trace) < MaxBuilt
    /\ \E p \in DOMAIN imported :
           LET tp == TrainingPipeline(imported[p])
           IN  /\ trace' = Append(trace, [op |-> "TrainingPipeline", proc |-> p, val |-> tp])
               /\ training_pipeline_config' = tp.training_pipeline_config
    /\ UNCHANGED <<now, imported, pc, fs, faults, patched, remote,
                   data_ingestion_artifact, data_validation_artifact,
                   data_transformation_artifact, model_trainer_artifact, result>>

\* TrainingPipelineConfigEntity(timestamp=datetime.now().strftime(...)) in a process
NewTrainingPipelineConfigEntity ==
    /\ \E p \in DOMAIN imported :
           training_pipeline_config' =
               TrainingPipelineConfigEntity(imported[p], Arg(strftime(now)))
    /\ UNCHANGED <<now, imported, pc, fs, trace, faults, patched, remote,
                   data_ingestion_artifact, data_validation_artifact,
                   data_transformation_artifact, model_trainer_artifact, result>>

\* A stage config is constructed from the current context.
NewStageConfig ==
    /\ Len(trace) < MaxBuilt
    /\ training_pipeline_config # Unset
    /\ \E stage \in StageNames :
           trace' = Append(trace, [op |-> "StageConfig", stage |-> stage, at |-> now,
                                   of |-> training_pipeline_config,
                                   val |-> StageConfig(stage, training_pipeline_config)])
    /\ UNCHANGED <<now, imported, pc, fs, faults, patched, remote, training_pipeline_config,
                   data_ingestion_artifact, data_validation_artifact,
                   data_transformation_artifact, model_trainer_artifact, result>>

ContextsNext ==
    \/ Tick
    \/ ImportConfig
    \/ NewTrainingPipeline
    \/ NewTrainingPipelineConfigEntity
    \/ NewStageConfig

SpecContexts == ContextsInit /\ [][ContextsNext]_vars

\* ------------------------------------------------------------ MongoDBClient
\* str(exc) is a sequence of words.
Error(type, str) == [kind |-> "Exception", type |-> type, tb |-> TRUE, str |-> str]

MongoDBOperationError_Bare(operation, message) ==
    [kind |-> "Exception", type |-> "MongoDBOperationError", tb |-> TRUE,
     operation |-> operation, message |-> <<>>,
     str |-> <<"MongoDB", "operation", "error">>]

\* MongoDBOperationError(operation, message), raised where it is constructed:
\* super().__init__(f"MongoDB operation error ({operation}): {message}")
MongoDBOperationError(operation, message) ==
    [kind |-> "Exception", type |-> "MongoDBOperationError", tb |-> TRUE,
     operation |-> operation, message |-> message,
     str |-> <<"MongoDB", "operation", "error", "(", operation, "):">> \o message]

\* What str() of the error a collection operation raises may be.
ErrorMessages == {<<"Insert", "failed">>, <<"timed", "out">>}

\* What a collection operation does: it raises an error, or it answers.
CollectionBehaviours ==
    {[kind |-> "raises", str |-> m] : m \in ErrorMessages} \cup {[kind |-> "answers"]}

\* bool(self.database): a MagicMock is true, None is false, and a pymongo
\* Database refuses truth-value testing.
DatabaseTruth == {"true", "false", "NotImplementedError"}

CollectionEv(fn, raised) == [op |-> "collection", fn |-> fn, raised |-> raised]

\* validate_input: logs and raises ValueError unless the value has the expected type.
validate_input(is_instance, f, ev) ==
    IF is_instance THEN Ok(None, f, ev)
    ELSE Raised(Error("ValueError", <<"Invalid", "type", "for", "field">>), f, ev)

\* get_collection: the handler is given a MongoDBConnectionError that was never raised.
get_collection(name_ok, database, f, ev) ==
    LET v == validate_input(name_ok, f, ev)
    IN  IF v.out # "ok" THEN v
        ELSE IF database = "NotImplementedError"
        THEN Raised(Error("NotImplementedError",
                          <<"Database", "objects", "do", "not", "implement", "bool()">>), f, ev)
        ELSE IF database = "false"
        THEN IF handle_exception(Exc("MongoDBConnectionError", FALSE)) = "return"
             THEN Raised(Error("MongoDBConnectionError",
                               <<"MongoDB", "connection", "error:", "Not", "connected">>), f, ev)
             ELSE Raised(Error("IndexError", <<"list", "index", "out", "of", "range">>), f, ev)
        ELSE Ok([kind |-> "Collection"], f, ev)

\* collection.insert_one / find / update_one / delete_one on the collection
collection_operation(fn, coll, f, ev) ==
    IF coll.kind = "raises"
    THEN Raised(Error("Exception", coll.str), f, ev \o <<CollectionEv(fn, TRUE)>>)
    ELSE Ok([kind |-> "Result", of |-> fn], f, ev \o <<CollectionEv(fn, FALSE)>>)

\* The try block of a CRUD method and its except clause:
\* handle_exception(e, "Failed to ..."), then raise MongoDBOperationError(operation, str(e)).
crud(operation, fn, name_ok, database, coll, f, ev) ==
    LET c == get_collection(name_ok, database, f, ev)
        r == IF c.out # "ok" THEN c ELSE collection_operation(fn, coll, c.fs, c.ev)
    IN  IF r.out = "ok" THEN r
        ELSE IF handle_exception(r.val) # "return"
        THEN Raised(Error("IndexError", <<"list", "index", "out", "of", "range">>), r.fs, r.ev)
        ELSE Raised(MongoDBOperationError(operation, r.val.str), r.fs, r.ev)

insert_document(name_ok, document_ok, database, coll, f, ev) ==
    LET v1 == validate_input(name_ok, f, ev)
        v2 == validate_input(document_ok, v1.fs, v1.ev)
    IN  IF v1.out # "ok" THEN v1
        ELSE IF v2.out # "ok" THEN v2
        ELSE crud("insert_document", "insert_one", name_ok, database, coll, v2.fs, v2.ev)

find_documents(name_ok, query_ok, database, coll, f, ev) ==
    LET v1 == validate_input(name_ok, f, ev)
        v2 == validate_input(query_ok, v1.fs, v1.ev)
    IN  IF v1.out # "ok" THEN v1
        ELSE IF v2.out # "ok" THEN v2
        ELSE crud("find_documents", "find", name_ok, database, coll, v2.fs, v2.ev)

update_document(name_ok, query_ok, update_values_ok, database, coll, f, ev) ==
    LET v1 == validate_input(name_ok, f, ev)
        v2 == validate_input(query_ok, v1.fs, v1.ev)
        v3 == validate_input(update_values_ok, v2.fs, v2.ev)
    IN  IF v1.out # "ok" THEN v1
        ELSE IF v2.out # "ok" THEN v2
        ELSE IF v3.out # "ok" THEN v3
        ELSE crud("update_document", "update_one", name_ok, database, coll, v3.fs, v3.ev)

delete_document(name_ok, query_ok, database, coll, f, ev) ==
    LET v1 == validate_input(name_ok, f, ev)
        v2 == validate_input(query_ok, v1.fs, v1.ev)
    IN  IF v1.out # "ok" THEN v1
        ELSE IF v2.out # "ok" THEN v2
        ELSE crud("delete_document", "delete_one", name_ok, database, coll, v2.fs, v2.ev)

\* A client over a collection of some behaviour; its methods are called one
\* after another with arguments of the expected types or not.
ClientInit ==
    /\ pc = "client"
    /\ now = 0
    /\ imported = <<>>
    /\ fs = <<>>
    /\ trace = <<>>
    /\ faults = 0
    /\ patched = TRUE
    /\ remote \in CollectionBehaviours
    /\ training_pipeline_config = Unset
    /\ data_ingestion_artifact = Unset
    /\ data_validation_artifact = Unset
    /\ data_transformation_artifact = Unset
    /\ model_trainer_artifact = Unset
    /\ result = Running

\* A method of the client has run to its end: r is how it ended.
Called(method, args, r) ==
    /\ trace' = <<CallEv(method, args)>> \o r.ev
    /\ result' = [out |-> r.out, val |-> r.val]
    /\ UNCHANGED <<now, imported, pc, fs, faults, patched, remote, training_pipeline_config,
                   data_ingestion_artifact, data_validation_artifact,
                   data_transformation_artifact, model_trainer_artifact>>

InsertDocument ==
    /\ pc = "client"
    /\ \E name_ok, document_ok \in BOOLEAN, database \in DatabaseTruth :
           Called("insert_document", <<name_ok, document_ok, database>>,
                  insert_document(name_ok, document_ok, database, remote, fs, <<>>))

FindDocuments ==
    /\ pc = "client"
    /\ \E name_ok, query_ok \in BOOLEAN, database \in DatabaseTruth :
           Called("find_documents", <<name_ok, query_ok, database>>,
                  find_documents(name_ok, query_ok, database, remote, fs, <<>>))

UpdateDocument ==
    /\ pc = "client"
    /\ \E name_ok, query_ok, update_values_ok \in BOOLEAN, database \in DatabaseTruth :
           Called("update_document", <<name_ok, query_ok, update_values_ok, database>>,
                  update_document(name_ok, query_ok, update_values_ok, database, remote,
                                  fs, <<>>))

DeleteDocument ==
    /\ pc = "client"
    /\ \E name_ok, query_ok \in BOOLEAN, database \in DatabaseTruth :
           Called("delete_document", <<name_ok, query_ok, database>>,
                  delete_document(name_ok, query_ok, database, remote, fs, <<>>))

ClientNext ==
    \/ InsertDocument
    \/ FindDocuments
    \/ UpdateDocument
    \/ DeleteDocument

SpecClient == ClientInit /\ [][ClientNext]_vars

\* ------------------------------------------------------ parse_requirements
MaxLineLen == 2   \* characters of a line of the requirements file
MaxLines == 2     \* lines of the requirements file

\* The characters of a line: whitespace, the comment mark, anything else.
Chars == {" ", "#", "a"}

SeqsUpTo(S, n) == UNION {[1..k -> S] : k \in 0..n}

\* A line is its characters without the line terminator (which strip removes too).
RequirementLines == SeqsUpTo(Chars, MaxLineLen)

REQUIREMENTS_PATH == <<"requirements.txt">>

RECURSIVE lstrip(_)
lstrip(line) ==
    IF line # <<>> /\ Head(line) = " " THEN lstrip(Tail(line)) ELSE line

RECURSIVE rstrip(_)
rstrip(line) ==
    IF line # <<>> /\ line[Len(line)] = " "
    THEN rstrip(SubSeq(line, 1, Len(line) - 1)) ELSE line

\* str.strip()
strip(line) == rstrip(lstrip(line))

\* str.startswith(prefix)
startswith(line, prefix) ==
    Len(line) >= Len(prefix) /\ SubSeq(line, 1, Len(prefix)) = prefix

\* [line.strip() for line in file if line.strip() and not line.startswith('#')]
RECURSIVE parse_requirements(_)
parse_requirements(lines) ==
    IF lines = <<>> THEN <<>>
    ELSE LET line == Head(lines)
         IN  (IF strip(line) # <<>> /\ ~startswith(line, <<"#">>)
              THEN <<strip(line)>> ELSE <<>>) \o parse_requirements(Tail(lines))

\* A requirements file of any content is on disk.
ParseInit ==
    /\ pc = "parse_requirements"
    /\ now = 0
    /\ imported = <<>>
    /\ fs \in {[p \in {REQUIREMENTS_PATH} |-> [kind |-> "text", lines |-> ls]] :
                  ls \in SeqsUpTo(RequirementLines, MaxLines)}
    /\ trace = <<>>
    /\ faults = 0
    /\ patched = FALSE
    /\ remote = Unreachable
    /\ training_pipeline_config = Unset
    /\ data_ingestion_artifact = Unset
    /\ data_validation_artifact = Unset
    /\ data_transformation_artifact = Unset
    /\ model_trainer_artifact = Unset
    /\ result = Running

\* parse_requirements("requirements.txt")
ParseRequirements ==
    /\ pc = "parse_requirements"
    /\ pc' = "done"
    /\ trace' = <<ReadEv(REQUIREMENTS_PATH, TRUE)>>
    /\ result' = [out |-> "ok",
                  val |-> [kind |-> "list",
                           items |-> parse_requirements(fs[REQUIREMENTS_PATH].lines)]]
    /\ UNCHANGED <<now, imported, fs, faults, patched, remote, training_pipeline_config,
                   data_ingestion_artifact, data_validation_artifact,
                   data_transformation_artifact, model_trainer_artifact>>

ParseNext == ParseRequirements

SpecParse == ParseInit /\ [][ParseNext]_vars

\* -------------------------------------------------------------- properties
StageFns == <<"start_data_ingestion", "start_data_validation",
              "start_data_transformation", "start_model_training">>

ComponentStartLogs == {"Starting data ingestion process.", "Starting data validation process.",
                       "Starting data transformation process.",
                       "Starting model training process."}

IsCall(i) == trace[i].op = "call"

IsReturn(i) == trace[i].op = "return"

\* The stage entry point whose return is trace[i] failed: it raised or gave no artifact.
FailedAt(i) == IsReturn(i) /\ (trace[i].out = "exc" \/ trace[i].val.kind = "None")

\* trace[j] is a stage component entering its initiate_* method.
ComponentStartAt(j) == trace[j].op = "log" /\ trace[j].msg \in ComponentStartLogs

AnyStageFailed == \E i \in DOMAIN trace : FailedAt(i)

AllStagesSucceeded ==
    \A k \in 1..4 : \E i \in DOMAIN trace :
        IsReturn(i) /\ trace[i].fn = StageFns[k] /\ ~FailedAt(i)

BundlePath == ModelTrainerConfigEntity(training_pipeline_config).trained_model_file_path

\* C1: once a stage has failed, no later stage component is started in the run.
C1_FailFast ==
    \A i, j \in DOMAIN trace : (i < j /\ FailedAt(i)) => ~ComponentStartAt(j)

\* C2: a failed stage makes its entry point raise to run_pipeline, and makes
\* run_pipeline raise to its caller, instead of returning normally.
C2_FailuresRaised ==
    /\ \A i \in DOMAIN trace : FailedAt(i) => trace[i].out = "exc"
    /\ (pc = "done" /\ AnyStageFailed) => result.out = "exc"

\* C3 (as stated): when all four stages succeed, run_pipeline returns the
\* training stage's artifact to its caller.
C3_RunReturnsArtifact ==
    (pc = "done" /\ AllStagesSucceeded) =>
        /\ result.out = "ok"
        /\ result.val.kind = "ModelTrainerArtifactEntity"

\* C3 (amended): when all four stages succeed, the training stage has returned
\* to run_pipeline the artifact with the bundle path and the train and test
\* metrics it scored; run_pipeline keeps it in a local and returns None.
C3_RunKeepsArtifact ==
    (pc = "done" /\ AllStagesSucceeded) =>
        /\ result = [out |-> "ok", val |-> None]
        /\ model_trainer_artifact.kind = "ModelTrainerArtifactEntity"
        /\ model_trainer_artifact.trained_model_file_path = BundlePath
        /\ \E i \in DOMAIN trace :
              /\ trace[i].op = "scores"
              /\ model_trainer_artifact.train_model_metrics.f1_score = trace[i].f1_train
              /\ model_trainer_artifact.test_model_metrics.f1_score = trace[i].f1_test

C3_Witness == pc = "done" /\ AllStagesSucceeded /\ Exists(fs, BundlePath)

CallSeq == SelectSeq(trace, LAMBDA e : e.op = "call")

\* C4: the stages are started in the order ingestion, validation,
\* transformation, training, each at most once, a stage only after the
\* preceding one has returned, and with exactly the artifact that one returned.
C4_StageOrder ==
    /\ Len(CallSeq) <= 4
    /\ \A k \in 1..Len(CallSeq) : CallSeq[k].fn = StageFns[k]
    /\ \A j \in DOMAIN trace : \A k \in 2..4 :
          (IsCall(j) /\ trace[j].fn = StageFns[k]) =>
              \E i \in 1..(j - 1) :
                  /\ IsReturn(i)
                  /\ trace[i].fn = StageFns[k - 1]
                  /\ trace[j].arg = trace[i].val
                  /\ \A m \in (i + 1)..(j - 1) : trace[m].op = "log"

C4_Witness == pc = "done" /\ Len(CallSeq) = 4 /\ AllStagesSucceeded

\* The primary fetch raises: the repository's client always does, a patched
\* one when the remote is unreachable.
PrimaryRaises == ~patched \/ remote.kind = "unreachable"

SnapshotExists == Exists(fs, OFFLINE_FILE_PATH)

C6_EmptyTriggersFallback ==
    (pc = "done" /\ patched /\ remote.kind = "records" /\ Size(remote.records) = 0) =>
        /\ \E i \in DOMAIN trace : trace[i].op = "read" /\ trace[i].path = OFFLINE_FILE_PATH
        /\ ~(result.val.kind = "DataFrame" /\ result.val.origin = "remote")

\* C7: a training run with train f1 below expected_score gives no artifact and
\* no bundle file; one with train f1 above expected_score and a train/test
\* divergence within the maximum gives an artifact and a bundle file.
C7_GateThreshold ==
    (pc = "done" /\ faults = 0) =>
        \A i \in DOMAIN trace : trace[i].op = "scores" =>
            /\ trace[i].f1_train < MODEL_TRAINER_EXPECTTED_SCORE =>
                  (model_trainer_artifact.kind = "None" /\ ~Exists(fs, BundlePath))
            /\ (/\ trace[i].f1_train > MODEL_TRAINER_EXPECTTED_SCORE
                /\ Abs(trace[i].f1_train - trace[i].f1_test)
                      <= MODEL_TRAINER_OVER_FITTING_UNDER_FITTING_SCORE) =>
                  (/\ model_trainer_artifact.kind = "ModelTrainerArtifactEntity"
                   /\ Exists(fs, BundlePath))

\* C8: after an acceptance gate has tripped the training stage does nothing
\* more than log and return: the bundle is not persisted and the stage
\* returns no artifact.
C8_GateStopsStage ==
    \A i \in DOMAIN trace : trace[i].op = "gate" =>
        /\ ~Exists(fs, BundlePath)
        /\ \A j \in DOMAIN trace : j > i => trace[j].op \in {"log", "return"}
        /\ pc \in {"completed", "done"} => model_trainer_artifact.kind = "None"

C8_Witness ==
    /\ pc = "done"
    /\ \E i \in DOMAIN trace : trace[i].op = "gate" /\ trace[i].gate = "divergence"
    /\ \E i \in DOMAIN trace : trace[i].op = "scores"
                               /\ trace[i].f1_train < MODEL_TRAINER_EXPECTTED_SCORE

\* C9: the returned ValidationArtifact's validation_status is the drift verdict
\* computed in the run.
C9_PassedIsVerdict ==
    data_validation_artifact.kind = "DataValidationArtifactEntity" =>
        \A i \in DOMAIN trace : trace[i].op = "drift" =>
            data_validation_artifact.validation_status = trace[i].status

PersistedBy(artifact) ==
    IF artifact.kind = "DataIngestionArtifactEntity"
    THEN {artifact.trained_file_path, artifact.test_file_path}
    ELSE IF artifact.kind = "DataValidationArtifactEntity"
    THEN {artifact.drift_report_file_path, artifact.valid_train_file_path,
          artifact.valid_test_file_path}
    ELSE IF artifact.kind = "DataTransformationArtifactEntity"
    THEN {artifact.transformed_train_file_path, artifact.transformed_test_file_path,
          artifact.transformed_object_file_path}
    ELSE IF artifact.kind = "ModelTrainerArtifactEntity"
    THEN {artifact.trained_model_file_path}
    ELSE {}

\* C11: whenever a stage has returned an artifact, every file the stage
\* persists for it is on disk and none of its writes failed; so no stage is
\* called with an artifact one of whose files is missing.
C11_ArtifactsPersisted ==
    /\ \A a \in {data_ingestion_artifact, data_validation_artifact,
                 data_transformation_artifact, model_trainer_artifact} :
           \A p \in PersistedBy(a) :
               /\ Exists(fs, p)
               /\ \A i \in DOMAIN trace :
                      (trace[i].op = "write" /\ trace[i].path = p) => trace[i].ok
    /\ \A j \in DOMAIN trace :
           IsCall(j) => \A p \in PersistedBy(trace[j].arg) :
               \E i \in 1..(j - 1) :
                   trace[i].op = "write" /\ trace[i].path = p /\ trace[i].ok

\* Every output file of a pipeline object
OutputPaths(tp) == UNION {StagePaths(stage, tp.config[stage]) : stage \in StageNames}

IsRun(i) == trace[i].op = "TrainingPipeline"

\* C12: any two runs created by TrainingPipeline() have disjoint sets of output files.
C12_RunsDisjoint ==
    \A i, j \in DOMAIN trace :
        (i < j /\ IsRun(i) /\ IsRun(j)) =>
            OutputPaths(trace[i].val) \cap OutputPaths(trace[j].val) = {}

IsStageConfig(i) == trace[i].op = "StageConfig"

\* C13: two constructions of a stage's config from the same context give the
\* same config, whenever they are made; and its paths are those derived from
\* the context's artifact_dir and the stage's constants.
C13_PathsDeterministic ==
    /\ \A i, j \in DOMAIN trace :
           (/\ IsStageConfig(i) /\ IsStageConfig(j)
            /\ trace[i].stage = trace[j].stage
            /\ trace[i].of = trace[j].of) =>
               /\ trace[i].val = trace[j].val
               /\ StagePaths(trace[i].stage, trace[i].val)
                      = StagePaths(trace[j].stage, trace[j].val)
    /\ \A i \in DOMAIN trace : IsStageConfig(i) =>
           \A p \in StagePaths(trace[i].stage, trace[i].val) :
               SubSeq(p, 1, 3) = trace[i].of.artifact_dir \o <<StageDir(trace[i].stage)>>

C13_Witness ==
    \E i, j \in DOMAIN trace :
        /\ i < j /\ IsStageConfig(i) /\ IsStageConfig(j)
        /\ trace[i].stage = trace[j].stage
        /\ trace[i].of = trace[j].of
        /\ strftime(trace[i].at) # strftime(trace[j].at)
        /\ trace[i].of.timestamp # strftime(trace[j].at)

OrderedOutputs ==
    LET icfg == DataIngestionConfigEntity(training_pipeline_config)
        vcfg == DataValidationConfigEntity(training_pipeline_config)
        tcfg == DataTransformationConfigEntity(training_pipeline_config)
    IN  <<icfg.feature_store_dir, icfg.training_file_path, icfg.testing_file_path,
          vcfg.drift_report_dir \o <<"drift_report.yaml">>,
          tcfg.transformed_train_file_path, tcfg.transformed_test_file_path,
          tcfg.transformed_object_file_path, BundlePath>>

\* The successful writes of those files so far, in order.
WritesOfOutputs ==
    SelectSeq(trace, LAMBDA e : /\ e.op = "write"
                                /\ e.ok
                                /\ \E k \in DOMAIN OrderedOutputs : e.path = OrderedOutputs[k])

\* C15: in a run where every stage has succeeded, the feature-store copy, the
\* two splits, the drift report, the two transformed arrays, the transform
\* object and the model bundle were written in that order, each exactly once.
C15_WriteOrder ==
    (pc = "done" /\ AllStagesSucceeded) =>
        /\ Len(WritesOfOutputs) = Len(OrderedOutputs)
        /\ \A k \in DOMAIN OrderedOutputs : WritesOfOutputs[k].path = OrderedOutputs[k]

\* C16: the transform object a successful transformation run has persisted is
\* the one any other successful run over the same training partition and
\* another test partition persists.
C16_FitOnTrainOnly ==
    LET cfg == DataTransformationConfigEntity(training_pipeline_config)
        dva == data_validation_artifact
        obj == cfg.transformed_object_file_path
    IN  (data_transformation_artifact.kind = "DataTransformationArtifactEntity"
         /\ Exists(fs, obj)) =>
            \A b \in RowBags :
                LET other == WriteFile(fs, dva.valid_test_file_path,
                                       ToCsv(DataFrame("fallback", AllColumns, b)))
                    r == initiate_data_transformation(cfg, dva, TRUE, {}, other, <<>>)
                IN  r.val.kind = "DataTransformationArtifactEntity" => r.fs[obj] = fs[obj]

C16_Witness ==
    LET cfg == DataTransformationConfigEntity(training_pipeline_config)
        dva == data_validation_artifact
    IN  /\ data_transformation_artifact.kind = "DataTransformationArtifactEntity"
        /\ Exists(fs, cfg.transformed_object_file_path)
        /\ fs[dva.valid_test_file_path].lines # fs[dva.valid_train_file_path].lines
        /\ fs[cfg.transformed_object_file_path].fitted_on
               = fs[dva.valid_train_file_path].lines

\* trace[i] is the validation stage failing to load an ingested partition.
PartitionLoadFailedAt(i) ==
    LET icfg == DataIngestionConfigEntity(training_pipeline_config)
    IN  /\ trace[i].op = "read"
        /\ ~trace[i].ok
        /\ trace[i].path \in {icfg.training_file_path, icfg.testing_file_path}

\* C17: if the validation stage could not load the train or the test
\* partition, it returns no artifact and writes neither the drift report nor
\* an accepted or rejected partition file.
C17_UnreadableInputFails ==
    LET vcfg == DataValidationConfigEntity(training_pipeline_config)
        outputs == StagePaths("data_validation", vcfg) \cup {vcfg.drift_report_file}
    IN  (\E i \in DOMAIN trace : PartitionLoadFailedAt(i)) =>
            /\ data_validation_artifact.kind = "None"
            /\ \A p \in outputs : ~Exists(fs, p)
            /\ \A j \in DOMAIN trace : trace[j].op = "write" => trace[j].path \notin outputs

C17_Witness ==
    LET icfg == DataIngestionConfigEntity(training_pipeline_config)
    IN  /\ pc = "done"
        /\ \E i \in DOMAIN trace : PartitionLoadFailedAt(i) /\ trace[i].path = icfg.testing_file_path
        /\ \E i \in DOMAIN trace : /\ trace[i].op = "read" /\ trace[i].ok
                                   /\ trace[i].path = icfg.training_file_path
        /\ data_validation_artifact.kind = "None"

\* The transformation stage has loaded both accepted partitions, and dropping
\* the rows without a target label leaves one of them empty.
EmptiedByDropna ==
    LET dva == data_validation_artifact
    IN  /\ data_transformation_artifact.kind # "Unset"
        /\ dva.kind = "DataValidationArtifactEntity"
        /\ Exists(fs, dva.valid_train_file_path)
        /\ Exists(fs, dva.valid_test_file_path)
        /\ \/ fs[dva.valid_train_file_path].lines["pos"] + fs[dva.valid_train_file_path].lines["neg"] = 0
           \/ fs[dva.valid_test_file_path].lines["pos"] + fs[dva.valid_test_file_path].lines["neg"] = 0

\* C18: if dropping the rows with a null target label empties the train or the
\* test partition, the transformation stage returns no artifact and persists
\* no transformed array and no transform object.
C18_EmptyPartitionFails ==
    LET tcfg == DataTransformationConfigEntity(training_pipeline_config)
        outputs == StagePaths("data_transformation", tcfg)
    IN  EmptiedByDropna =>
            /\ data_transformation_artifact.kind = "None"
            /\ \A p \in outputs : ~Exists(fs, p)
            /\ \A j \in DOMAIN trace : trace[j].op = "write" => trace[j].path \notin outputs

C18_Witness ==
    LET dva == data_validation_artifact
    IN  /\ EmptiedByDropna
        /\ Size(fs[dva.valid_test_file_path].lines) > 0
        /\ fs[dva.valid_train_file_path].lines["na"] = 0
        /\ data_transformation_artifact.kind = "None"

ValidationReturnedArtifact == data_validation_artifact.kind = "DataValidationArtifactEntity"

TransformationStartedWith(artifact) ==
    \E i \in DOMAIN trace :
        IsCall(i) /\ trace[i].fn = "start_data_transformation" /\ trace[i].arg = artifact

\* C19: once the validation stage has returned an artifact, run_pipeline logs
\* the verdict and goes on to the transformation stage, which it starts with
\* that artifact, whatever the drift verdict was.
C19_VerdictNeverHalts ==
    (ValidationReturnedArtifact /\ pc # "validation_status") =>
        /\ \E i \in DOMAIN trace :
               /\ trace[i].op = "log"
               /\ trace[i].msg = (IF data_validation_artifact.validation_status
                                  THEN "Data validation passed."
                                  ELSE "Data validation failed. Check the invalid data files.")
        /\ \/ pc = "start_data_transformation"
           \/ TransformationStartedWith(data_validation_artifact)

C19_Witness ==
    /\ ValidationReturnedArtifact
    /\ \E i \in DOMAIN trace : trace[i].op = "drift" /\ ~trace[i].status
    /\ TransformationStartedWith(data_validation_artifact)

\* C20: if the remote collection is reachable and holds at least one record,
\* export_data_to_feature_store returns the dataset built from those records
\* and does not read the fallback snapshot.
C20_RemotePreferred ==
    (pc = "done" /\ remote.kind = "records" /\ Size(remote.records) >= 1) =>
        /\ result.out = "ok"
        /\ result.val.kind = "DataFrame"
        /\ result.val.origin = "remote"
        /\ result.val.rows = remote.records
        /\ \A i \in DOMAIN trace :
               ~(trace[i].op = "read" /\ trace[i].path = OFFLINE_FILE_PATH)

\* C21: every persisted model bundle holds the classifier fitted in the
\* training stage and, in its transform slot, the fitted transform that the
\* transformation stage of the run persisted.
C21_BundlePairsTransform ==
    LET tcfg == DataTransformationConfigEntity(training_pipeline_config)
        obj == tcfg.transformed_object_file_path
    IN  Exists(fs, BundlePath) =>
            /\ fs[BundlePath].kind = "SensorModel"
            /\ fs[BundlePath].model.kind = "XGBClassifier"
            /\ fs[BundlePath].preprocessor.kind = "Pipeline"
            /\ Exists(fs, obj)
            /\ fs[BundlePath].preprocessor = fs[obj]

\* words occurs in str as a run of consecutive words.
Contains(str, words) ==
    \E i \in 1..(Len(str) + 1) :
        /\ i + Len(words) - 1 <= Len(str)
        /\ SubSeq(str, i, i + Len(words) - 1) = words

CrudMethods == {"insert_document", "find_documents", "update_document", "delete_document"}

\* The call in the trace reached its collection operation, and that raised.
CollectionOperationRaised ==
    /\ trace # <<>>
    /\ trace[1].fn \in CrudMethods
    /\ \E i \in DOMAIN trace : trace[i].op = "collection" /\ trace[i].raised

\* C22: if the collection operation of insert_document, find_documents,
\* update_document or delete_document raises, the method raises a
\* MongoDBOperationError of that operation whose message contains the
\* underlying error's message, and returns no value.
C22_OperationErrorRaised ==
    CollectionOperationRaised =>
        /\ result.out = "exc"
        /\ result.val.type = "MongoDBOperationError"
        /\ result.val.operation = trace[1].fn
        /\ Contains(result.val.str, remote.str)

C22_Witness ==
    /\ CollectionOperationRaised
    /\ trace[1].fn = "update_document"
    /\ remote.str = <<"timed", "out">>
    /\ result.out = "exc"

\* A line that holds nothing but whitespace.
IsBlank(line) == strip(line) = <<>>

\* A line whose first character that is not whitespace is the comment mark.
IsComment(line) == startswith(strip(line), <<"#">>)

RECURSIVE Requirements(_)
\* The lines that are neither blank nor comments, stripped, in file order.
Requirements(lines) ==
    IF lines = <<>> THEN <<>>
    ELSE (IF IsBlank(Head(lines)) \/ IsComment(Head(lines))
          THEN <<>> ELSE <<strip(Head(lines))>>) \o Requirements(Tail(lines))

\* C23: parse_requirements returns, in file order, exactly the lines that are
\* neither blank nor comments, each stripped; no comment and no empty entry is
\* returned.
C23_ParsedRequirements ==
    pc = "done" =>
        /\ result.val.items = Requirements(fs[REQUIREMENTS_PATH].lines)
        /\ \A k \in DOMAIN result.val.items :
               /\ result.val.items[k] # <<>>
               /\ ~IsComment(result.val.items[k])

DriftReportPath ==
    DataValidationConfigEntity(training_pipeline_config).drift_report_dir
        \o <<"drift_report.yaml">>

\* C24: the drift report has an entry for every column of the train
\* partition; a column is reported drifted exactly when its p-value is
\* strictly below the threshold (a p-value equal to the threshold is not
\* drifted), and the verdict is true exactly when no column is drifted.
C24_DriftedBelowThreshold ==
    LET train == DataIngestionConfigEntity(training_pipeline_config).training_file_path
    IN  Exists(fs, DriftReportPath) =>
            LET report == fs[DriftReportPath].content
            IN  /\ DOMAIN report = fs[train].header
                /\ \A c \in DOMAIN report :
                       report[c].is_drifted <=> report[c].pvalue < DATA_DRIFT_THRESHOLD
                /\ \A i \in DOMAIN trace : trace[i].op = "drift" =>
                       (trace[i].status <=> \A c \in DOMAIN report : ~report[c].is_drifted)

C24_Witness ==
    /\ Exists(fs, DriftReportPath)
    /\ \E c, d \in DOMAIN fs[DriftReportPath].content :
           /\ fs[DriftReportPath].content[c].pvalue = DATA_DRIFT_THRESHOLD
           /\ ~fs[DriftReportPath].content[c].is_drifted
           /\ fs[DriftReportPath].content[d].pvalue < DATA_DRIFT_THRESHOLD
           /\ fs[DriftReportPath].content[d].is_drifted
    /\ \E i \in DOMAIN trace : trace[i].op = "drift" /\ ~trace[i].status

GateTripped(gate) == \E i \in DOMAIN trace : trace[i].op = "gate" /\ trace[i].gate = gate

\* C25: the minimum-score gate trips exactly when train f1 is greater than or
\* equal to expected_score: equality trips it, a train f1 below it never does.
C25_ScoreGateInclusive ==
    \A i \in DOMAIN trace : trace[i].op = "scores" =>
        (GateTripped("score") <=> trace[i].f1_train >= MODEL_TRAINER_EXPECTTED_SCORE)

C25_Witness ==
    /\ GateTripped("score")
    /\ \E i \in DOMAIN trace :
           trace[i].op = "scores" /\ trace[i].f1_train = MODEL_TRAINER_EXPECTTED_SCORE

\* C26: when the training stage reaches the overfitting/underfitting gate,
\* the gate trips exactly when the absolute difference between train f1 and
\* test f1 is strictly greater than the maximum divergence; a difference equal
\* to the maximum passes.
C26_DivergenceGateStrict ==
    \A i \in DOMAIN trace : (trace[i].op = "scores" /\ ~GateTripped("score")) =>
        (GateTripped("divergence") <=>
            Abs(trace[i].f1_train - trace[i].f1_test)
                > MODEL_TRAINER_OVER_FITTING_UNDER_FITTING_SCORE)

C26_Witness ==
    /\ ~GateTripped("divergence")
    /\ model_trainer_artifact.kind = "ModelTrainerArtifactEntity"
    /\ \E i \in DOMAIN trace :
           /\ trace[i].op = "scores"
           /\ Abs(trace[i].f1_train - trace[i].f1_test)
                  = MODEL_TRAINER_OVER_FITTING_UNDER_FITTING_SCORE

\* The I/O operations of the validation stage that may fail, and the sets of
\* them that fail in one run.
ValidationFaults ==
    LET cfg == DataValidationConfigEntity(training_pipeline_config)
    IN  {F \in SUBSET {cfg.drift_report_dir, cfg.drift_report_dir \o <<"drift_report.yaml">>,
                       cfg.validated_dir, cfg.valid_train_dir, cfg.valid_test_dir} :
            Cardinality(F) <= MaxFaults}

\* What a validation run shows apart from its log lines and the structural
\* checks' results: the verdict, the file accesses, the artifact and the files.
Observable(r) ==
    [out |-> r.out, val |-> r.val, fs |-> r.fs,
     ev |-> SelectSeq(r.ev, LAMBDA e : e.op \in {"drift", "write", "read"})]

\* The validation stage run from the current files under a schema.
ValidationUnder(schema, drift, F) ==
    start_data_validation(DataValidationConfigEntity(training_pipeline_config),
                          data_ingestion_artifact, schema, drift, F, fs, <<>>)

\* A structural check of the validation run found a failure.
StructuralFailure ==
    \E i \in DOMAIN trace :
        /\ trace[i].op = "structure"
        /\ \E k \in 1..4 : trace[i].checks[k] # [kind |-> "bool", v |-> TRUE]

\* C27: the structural check is advisory: validation runs that differ only in
\* the structural check's outcome give the same verdict, return the same
\* artifact (or none) and write the same files; and what a run has returned
\* and written is what it does under a schema the partitions meet.
C27_StructureAdvisory ==
    LET met == Schema(Cardinality(AllColumns), {"sensor"})
    IN  /\ pc \in {"start_data_validation", "validation_status"} =>
               \A F \in ValidationFaults, drift \in DriftOutcomes, schema \in Schemas :
                   Observable(ValidationUnder(schema, drift, F))
                       = Observable(ValidationUnder(met, drift, F))
        /\ pc = "validation_status" =>
               \E F \in ValidationFaults, drift \in DriftOutcomes :
                   LET r == ValidationUnder(met, drift, F)
                   IN  /\ r.val = data_validation_artifact
                       /\ r.fs = fs
                       /\ SelectSeq(r.ev, LAMBDA e : e.op = "drift")
                              = SelectSeq(trace, LAMBDA e : e.op = "drift")

C27_Witness ==
    /\ pc = "validation_status"
    /\ StructuralFailure
    /\ data_validation_artifact.kind = "DataValidationArtifactEntity"
    /\ \E i \in DOMAIN trace : trace[i].op = "drift" /\ ~trace[i].status
    /\ Exists(fs, data_validation_artifact.valid_train_file_path)

\* C28: run_pipeline logs "Training pipeline completed successfully." only in
\* runs in which all four stages returned an artifact and the model bundle was
\* persisted; a run in which some stage failed never logs it.
C28_CompletedMeansSucceeded ==
    (\E i \in DOMAIN trace : trace[i] = Log("Training pipeline completed successfully.")) =>
        /\ AllStagesSucceeded
        /\ ~AnyStageFailed
        /\ Exists(fs, BundlePath)

\* C29: handle_exception only logs: given an exception that was raised and
\* caught (a failed file access of the run) or one that was constructed and
\* never raised (the one a tripped gate hands it), it returns normally.
C29_HandlerOnlyLogs ==
    /\ (\E i \in DOMAIN trace : trace[i].op \in {"read", "write"} /\ ~trace[i].ok) =>
           handle_exception(Exc("OSError", TRUE)) = "return"
    /\ (\E i \in DOMAIN trace : trace[i].op = "gate") =>
           handle_exception(Exc("Exception", FALSE)) = "return"

\* C30: the drift report is written to the drift_report_file of the
\* validation config, and the returned artifact's drift_report_file_path is
\* that path.
C30_ReportAtConfiguredPath ==
    LET cfg == DataValidationConfigEntity(training_pipeline_config)
    IN  /\ \A i \in DOMAIN trace :
               (/\ trace[i].op = "write"
                /\ Len(trace[i].path) > Len(cfg.drift_report_dir)
                /\ SubSeq(trace[i].path, 1, Len(cfg.drift_report_dir)) = cfg.drift_report_dir) =>
                   trace[i].path = cfg.drift_report_file
        /\ \A p \in DOMAIN fs : fs[p].kind = "yaml" => p = cfg.drift_report_file
        /\ data_validation_artifact.kind = "DataValidationArtifactEntity" =>
               data_validation_artifact.drift_report_file_path = cfg.drift_report_file

====
